---- MODULE Spec2Model ----
\* Transport scheduling of fyt: InternalBus itineraries, their StopOrders,
\* the dirty flag and the computation of pickup and dropoff times.
EXTENDS Integers, Sequences, FiniteSets, TLC

VARIABLES
    config,          \* TransportConfig of the current trips year: hanover, lodge
    stop,            \* Stop rows: route, location (address / lat_lng)
    trip,            \* Trip rows with their template's stops and route overrides
    leaders_arrive,  \* Section.leaders_arrive, per section
    bus,             \* InternalBus rows: dirty, use_custom_times
    stoporder,       \* StopOrder rows
    size,            \* Trip.size: the number of people on each trip
    capacity,        \* Route.vehicle.capacity, per route
    request,         \* the stops of a direct call of get_directions
    held,            \* the InternalBus instance a process holds in memory
    last,            \* what the last operation did: name, bus, provider call, exception
    steps            \* operations performed so far

vars == <<config, stop, trip, leaders_arrive, bus, stoporder, size, capacity, request,
          held, last, steps>>

\* ---------------------------------------------------------------- bounds

\* Number of operations explored from an initial database.
MaxSteps == 2

\* ------------------------------------------------------------- universes

\* A null foreign key, a null TimeField.
NULL == 0 - 1

Routes == {1, 2}
Stops == 1 .. 4
Trips == 1 .. 3
Sections == {1, 2}
LeadersArrive == 0 .. 2
Locations == {0, 1}
\* Order keys an operator gives a StopOrder.
Orders == 1 .. 3
\* Durations, in minutes, that the directions provider reports for the legs of
\* odd and of even number.
Durations == { << 30, 120 >>, << 120, 120 >> }
\* The stops that trip templates drop off and pick up at; 1 and 2 are the
\* stops the TransportConfig starts with.
TemplateStops == {3, 4}
\* Operator-entered custom times (13:00 and 14:00), in minutes after midnight.
CustomTimes == {780, 840}

ThisYear == "trips_year"
OldYear == "old_trips_year"

\* The (trips_year, route, date) keys a bus can be scheduled under; the model's
\* primary keys of InternalBus, unique by Meta.unique_together.
BusKeys ==
    { [trips_year |-> ThisYear, route |-> 1, date |-> 4],
      [trips_year |-> ThisYear, route |-> 2, date |-> 4],
      [trips_year |-> ThisYear, route |-> 1, date |-> 5],
      [trips_year |-> OldYear, route |-> 3, date |-> 4] }

\* Stop.distance, the rough distance from Hanover.
distance(s) == CASE s = 1 -> 0 [] s = 2 -> 9 [] s = 3 -> 1 [] OTHER -> 2

\* The section of a trip and the return route of its template.
section_of(t) == IF t = 2 THEN 2 ELSE 1
template_return_route(t) == IF t = 2 THEN NULL ELSE 1

DROPOFF == "DROPOFF"
PICKUP == "PICKUP"

\* ------------------------------------------------------------ the database

World ==
    [ config |-> config, stop |-> stop, trip |-> trip,
      leaders_arrive |-> leaders_arrive, bus |-> bus, stoporder |-> stoporder,
      size |-> size, capacity |-> capacity, error |-> "none" ]

NoBus == [exists |-> FALSE, dirty |-> FALSE, use_custom_times |-> FALSE]
NewBus == [exists |-> TRUE, dirty |-> TRUE, use_custom_times |-> FALSE]

NoTrip ==
    [ exists |-> FALSE, dropoff_stop |-> 3, pickup_stop |-> 3,
      dropoff_route |-> NULL, pickup_route |-> NULL, return_route |-> NULL ]

\* ------------------------------------------------------- trips and routes

\* Trip.get_dropoff_route: the override, else the route of the template's stop.
get_dropoff_route(w, t) ==
    IF w.trip[t].dropoff_route # NULL THEN w.trip[t].dropoff_route
    ELSE w.stop[w.trip[t].dropoff_stop].route

get_pickup_route(w, t) ==
    IF w.trip[t].pickup_route # NULL THEN w.trip[t].pickup_route
    ELSE w.stop[w.trip[t].pickup_stop].route

get_return_route(w, t) ==
    IF w.trip[t].return_route # NULL THEN w.trip[t].return_route
    ELSE template_return_route(t)

\* Section dates: at_campsite1, arrive_at_lodge, return_to_campus.
dropoff_date(w, t) == w.leaders_arrive[section_of(t)] + 2
pickup_date(w, t) == w.leaders_arrive[section_of(t)] + 4
return_date(w, t) == w.leaders_arrive[section_of(t)] + 5

\* TripManager.dropoffs / pickups / returns: only trips of the given year
\* (every modelled trip belongs to ThisYear).
dropoffs(w, route, date, year) ==
    { t \in Trips : /\ w.trip[t].exists
                    /\ year = ThisYear
                    /\ get_dropoff_route(w, t) = route
                    /\ dropoff_date(w, t) = date }

pickups(w, route, date, year) ==
    { t \in Trips : /\ w.trip[t].exists
                    /\ year = ThisYear
                    /\ get_pickup_route(w, t) = route
                    /\ pickup_date(w, t) = date }

returns(w, route, date, year) ==
    { t \in Trips : /\ w.trip[t].exists
                    /\ year = ThisYear
                    /\ get_return_route(w, t) = route
                    /\ return_date(w, t) = date }

\* dropping_off asking the manager for the pickups of the route and date.
dropping_off_pickups(w, k) == pickups(w, k.route, k.date, k.trips_year)

\* InternalBus.dropping_off, picking_up, returning.
dropping_off(w, k) == dropoffs(w, k.route, k.date, k.trips_year)
picking_up(w, k) == pickups(w, k.route, k.date, k.trips_year)
returning(w, k) == returns(w, k.route, k.date, k.trips_year)

\* ------------------------------------------------------ itinerary builder

\* StopOrder.stop: the template's dropoff or pickup stop of the trip.
so_stop(w, so) ==
    IF so.stop_type = DROPOFF THEN w.trip[so.trip].dropoff_stop
    ELSE w.trip[so.trip].pickup_stop

\* bus.stoporder_set
stoporder_set(w, k) == { so \in w.stoporder : so.bus = k }

\* stoporder_set.all() without Meta.ordering: the rows in any order.
orderings_unordered(w, k) ==
    LET S == stoporder_set(w, k)
        n == Cardinality(S)
    IN { f \in [1 .. n -> S] : \A i, j \in 1 .. n : i # j => f[i] # f[j] }

\* The results stoporder_set.all() can give: the rows ordered by Meta.ordering
\* ['order']; rows with equal order come in an order the database chooses.
orderings(w, k) ==
    LET S == stoporder_set(w, k)
        n == Cardinality(S)
    IN { f \in [1 .. n -> S] :
           /\ \A i, j \in 1 .. n : i # j => f[i] # f[j]
           /\ \A i, j \in 1 .. n : i < j => f[i].order <= f[j].order }

\* Length of the run of rows at the head of orders that share the stop s.
RECURSIVE run_length(_, _, _)
run_length(w, orders, s) ==
    IF orders = << >> \/ so_stop(w, Head(orders)) # s THEN 0
    ELSE 1 + run_length(w, Tail(orders), s)

\* itertools.groupby over consecutive rows with the same stop, and the
\* trips_dropped_off / trips_picked_up attributes set on each stop.
RECURSIVE groupby(_, _)
groupby(w, orders) ==
    IF orders = << >> THEN << >>
    ELSE LET s == so_stop(w, Head(orders))
             n == run_length(w, orders, s)
             grp == { orders[i] : i \in 1 .. n }
         IN << [ stop |-> s,
                 trips_dropped_off |-> { o.trip : o \in { x \in grp : x.stop_type = DROPOFF } },
                 trips_picked_up |-> { o.trip : o \in { x \in grp : x.stop_type = PICKUP } } ] >>
            \o groupby(w, SubSeq(orders, n + 1, Len(orders)))

\* visits_lodge looking at the pickups only.
visits_lodge_pickups_only(w, k) == picking_up(w, k) # {}

\* InternalBus.visits_lodge
visits_lodge(w, k) == picking_up(w, k) # {} \/ returning(w, k) # {}

\* all_stops without the last visit of Hanover.
all_stops_no_return(w, k, orders) ==
    << [ stop |-> w.config.hanover,
         trips_dropped_off |-> {},
         trips_picked_up |-> dropping_off(w, k) ] >>
    \o groupby(w, orders)
    \o ( IF visits_lodge(w, k)
         THEN << [ stop |-> w.config.lodge,
                   trips_dropped_off |-> picking_up(w, k),
                   trips_picked_up |-> returning(w, k) ] >>
         ELSE << >> )

\* all_stops with the two manifests of the Lodge exchanged.
all_stops_lodge_swapped(w, k, orders) ==
    << [ stop |-> w.config.hanover,
         trips_dropped_off |-> {},
         trips_picked_up |-> dropping_off(w, k) ] >>
    \o groupby(w, orders)
    \o ( IF visits_lodge(w, k)
         THEN << [ stop |-> w.config.lodge,
                   trips_dropped_off |-> returning(w, k),
                   trips_picked_up |-> picking_up(w, k) ] >>
         ELSE << >> )
    \o ( IF returning(w, k) # {}
         THEN << [ stop |-> w.config.hanover,
                   trips_dropped_off |-> returning(w, k),
                   trips_picked_up |-> {} ] >>
         ELSE << >> )

\* InternalBus.all_stops, given the rows stoporder_set.all() returned.
all_stops(w, k, orders) ==
    << [ stop |-> w.config.hanover,
         trips_dropped_off |-> {},
         trips_picked_up |-> dropping_off(w, k) ] >>
    \o groupby(w, orders)
    \o ( IF visits_lodge(w, k)
         THEN << [ stop |-> w.config.lodge,
                   trips_dropped_off |-> picking_up(w, k),
                   trips_picked_up |-> returning(w, k) ] >>
         ELSE << >> )
    \o ( IF returning(w, k) # {}
         THEN << [ stop |-> w.config.hanover,
                   trips_dropped_off |-> returning(w, k),
                   trips_picked_up |-> {} ] >>
         ELSE << >> )

\* ------------------------------------------------------- directions client

\* The provider raises TransportError or ApiError.
Failure == [ ok |-> FALSE, dur |-> << >>, routes |-> 0, in_order |-> TRUE, extra_legs |-> 0 ]

\* The provider answers with one route whose waypoints are in the order asked
\* and whose legs, one per waypoint and one to the destination, take dur.
Answer(dur) == [ ok |-> TRUE, dur |-> dur, routes |-> 1, in_order |-> TRUE, extra_legs |-> 0 ]

\* What the provider can answer to a bus: a failure or one duration per leg.
Responses ==
    { Failure } \cup { Answer(<< r[1], r[2], r[1], r[2] >>) : r \in Durations }

\* What the provider can answer at all: also no route or two routes, waypoints
\* in another order than asked, a leg too few or a leg too many.
AnyResponses ==
    Responses
    \cup { [Answer(<< 30, 120 >>) EXCEPT !.routes = n] : n \in {0, 2} }
    \cup { [Answer(<< 30, 120 >>) EXCEPT !.in_order = FALSE] }
    \cup { [Answer(<< 30, 120 >>) EXCEPT !.extra_legs = n] : n \in {0 - 1, 1} }

\* The most waypoints get_directions hands to the provider.
MAX_WAYPOINTS == 8

\* The legs of the route the provider returns for an origin, the waypoints and
\* a destination.
provider_legs(stops) == (IF Len(stops) > 2 THEN Len(stops) - 2 ELSE 0) + 1

\* get_directions without the comparison of waypoint_order.
get_directions_order_unchecked(stops, resp) ==
    IF Len(stops) - 2 > MAX_WAYPOINTS
    THEN [ raised |-> "MapError", message |-> "Too many waypoints",
           called |-> FALSE, legs |-> << >> ]
    ELSE IF ~resp.ok
    THEN [ raised |-> "MapError", message |-> "provider",
           called |-> TRUE, legs |-> << >> ]
    ELSE IF resp.routes # 1
    THEN [ raised |-> "MapError", message |-> "Expecting one route",
           called |-> TRUE, legs |-> << >> ]
    ELSE IF Len(stops) # provider_legs(stops) + resp.extra_legs + 1
    THEN [ raised |-> "MapError", message |-> "mismatched stops and legs",
           called |-> TRUE, legs |-> << >> ]
    ELSE [ raised |-> "none", message |-> "", called |-> TRUE,
           legs |-> [ i \in 1 .. Len(stops) - 1 |->
                        [ start_stop |-> stops[i],
                          end_stop |-> stops[i + 1],
                          duration |-> resp.dur[((i - 1) % Len(resp.dur)) + 1],
                          start_time |-> NULL,
                          end_time |-> NULL ] ] ]

\* maps.get_directions: the legs, each with its start_stop and end_stop, or a
\* MapError; called tells whether the provider was asked. The origin and the
\* destination of a list of one stop are that stop: the provider is asked and
\* its one leg does not match the stops.
get_directions(stops, resp) ==
    IF Len(stops) - 2 > MAX_WAYPOINTS
    THEN [ raised |-> "MapError", message |-> "Too many waypoints",
           called |-> FALSE, legs |-> << >> ]
    ELSE IF ~resp.ok
    THEN [ raised |-> "MapError", message |-> "provider",
           called |-> TRUE, legs |-> << >> ]
    ELSE IF resp.routes # 1
    THEN [ raised |-> "MapError", message |-> "Expecting one route",
           called |-> TRUE, legs |-> << >> ]
    ELSE IF ~resp.in_order
    THEN [ raised |-> "MapError", message |-> "Waypoints out of order",
           called |-> TRUE, legs |-> << >> ]
    ELSE IF Len(stops) # provider_legs(stops) + resp.extra_legs + 1
    THEN [ raised |-> "MapError", message |-> "mismatched stops and legs",
           called |-> TRUE, legs |-> << >> ]
    ELSE [ raised |-> "none", message |-> "", called |-> TRUE,
           legs |-> [ i \in 1 .. Len(stops) - 1 |->
                        [ start_stop |-> stops[i],
                          end_stop |-> stops[i + 1],
                          duration |-> resp.dur[((i - 1) % Len(resp.dur)) + 1],
                          start_time |-> NULL,
                          end_time |-> NULL ] ] ]

\* InternalBus.directions
directions(w, k, orders, resp) == get_directions(all_stops(w, k, orders), resp)

\* ------------------------------------------------------------ time resolver

\* InternalBus.LOADING_TIME, in minutes.
LOADING_TIME == 15
\* 7:30 and 11:00 on the bus date, in minutes after midnight of that date.
DEPARTURE_TIME == 7 * 60 + 30
MIN_LODGE_ARRIVAL_TIME == 11 * 60

\* datetime.time(): the time of day of a datetime.
time_of(progress) == progress % (24 * 60)

\* takewhile(lambda leg: leg.start_stop != lodge, legs); Stops compare by key.
RECURSIVE takewhile_not_lodge(_, _)
takewhile_not_lodge(w, legs) ==
    IF legs = << >> \/ Head(legs).start_stop.stop = w.config.lodge THEN << >>
    ELSE << Head(legs) >> \o takewhile_not_lodge(w, Tail(legs))

RECURSIVE sum_durations(_)
sum_durations(legs) ==
    IF legs = << >> THEN 0 ELSE Head(legs).duration + sum_durations(Tail(legs))

\* InternalBus.get_departure_time
get_departure_time(w, k, legs) ==
    LET legs_to_lodge == takewhile_not_lodge(w, legs)
        travel_time == sum_durations(legs_to_lodge)
        loading_time == (Len(legs_to_lodge) - 1) * LOADING_TIME
        total_duration == travel_time + loading_time
        too_early == DEPARTURE_TIME + total_duration < MIN_LODGE_ARRIVAL_TIME
    IN IF visits_lodge(w, k) /\ too_early
       THEN MIN_LODGE_ARRIVAL_TIME - total_duration
       ELSE DEPARTURE_TIME

\* stoporder.computed_time = t; stoporder.save() for the trip's StopOrder of
\* the given type (Trip.get_pickup_stoporder, Trip.get_dropoff_stoporder).
stamp(orders, trips, type, t) ==
    { IF so.trip \in trips /\ so.stop_type = type
      THEN [so EXCEPT !.computed_time = t] ELSE so : so \in orders }

\* The custom times of the trips picked up at a stop.
custom_times(orders, trips) ==
    { so.custom_time : so \in { x \in orders : x.trip \in trips /\ x.stop_type = PICKUP } }

\* The loop body bracketing every leg with computed times, custom times or not.
walk_leg_computed_times(w, k, st, i) ==
    LET leg == st.legs[i]
        loads == leg.start_stop.stop # w.config.hanover
        so1 == IF loads
               THEN stamp(st.stoporder, leg.start_stop.trips_picked_up, PICKUP,
                          time_of(st.progress))
               ELSE st.stoporder
        p1 == IF loads THEN st.progress + LOADING_TIME ELSE st.progress
        p2 == p1 + leg.duration
        leg2 == [leg EXCEPT !.start_time = time_of(p1), !.end_time = time_of(p2)]
        so2 == IF leg.end_stop.stop # w.config.lodge
               THEN stamp(so1, leg.end_stop.trips_dropped_off, DROPOFF, time_of(p2))
               ELSE so1
    IN [st EXCEPT !.stoporder = so2, !.progress = p2, !.legs[i] = leg2]

\* One pass of the loop of update_stop_times over leg number i. The state of
\* the walk: progress, the StopOrder rows, the legs, and what was raised.
walk_leg(w, k, st, i) ==
    LET leg == st.legs[i]
        loads == leg.start_stop.stop # w.config.hanover
        so1 == IF loads
               THEN stamp(st.stoporder, leg.start_stop.trips_picked_up, PICKUP,
                          time_of(st.progress))
               ELSE st.stoporder
        p1 == IF loads THEN st.progress + LOADING_TIME ELSE st.progress
        cts == custom_times(so1, leg.start_stop.trips_picked_up)
        p2 == p1 + leg.duration
        leg2 == IF w.bus[k].use_custom_times
                THEN IF loads /\ Cardinality(cts) = 1
                     THEN [leg EXCEPT !.start_time = CHOOSE c \in cts : TRUE]
                     ELSE leg
                ELSE [leg EXCEPT !.start_time = time_of(p1), !.end_time = time_of(p2)]
        so2 == IF leg.end_stop.stop # w.config.lodge
               THEN stamp(so1, leg.end_stop.trips_dropped_off, DROPOFF, time_of(p2))
               ELSE so1
    IN IF w.bus[k].use_custom_times /\ loads /\ Cardinality(cts) > 1
       THEN [st EXCEPT !.stoporder = so1, !.progress = p1, !.raised = "AssertionError"]
       ELSE [st EXCEPT !.stoporder = so2, !.progress = p2, !.legs[i] = leg2]

RECURSIVE walk(_, _, _, _, _)
walk(w, k, st, i, n) ==
    IF i > n \/ st.raised # "none" THEN st
    ELSE walk(w, k, walk_leg(w, k, st, i), i + 1, n)

\* update_stop_times saving dirty = False before it asks for the directions.
update_stop_times_clean_first(w, k, orders, resp) ==
    LET d == directions(w, k, orders, resp)
        departure == get_departure_time(w, k, d.legs)
        n == Len(takewhile_not_lodge(w, d.legs))
        st0 == [ progress |-> departure, stoporder |-> w.stoporder,
                 legs |-> d.legs, raised |-> "none" ]
        st == walk(w, k, st0, 1, n)
    IN IF k.trips_year # ThisYear
       THEN [ w |-> w, raised |-> "DoesNotExist", called |-> FALSE, legs |-> << >>,
              departure |-> NULL, arrival |-> NULL ]
       ELSE IF d.raised # "none"
       THEN [ w |-> [w EXCEPT !.bus[k].dirty = FALSE],
              raised |-> d.raised, called |-> d.called, legs |-> << >>,
              departure |-> NULL, arrival |-> NULL ]
       ELSE IF st.raised # "none"
       THEN [ w |-> [w EXCEPT !.stoporder = st.stoporder, !.bus[k].dirty = FALSE],
              raised |-> st.raised, called |-> TRUE, legs |-> << >>,
              departure |-> departure, arrival |-> NULL ]
       ELSE [ w |-> [w EXCEPT !.stoporder = st.stoporder, !.bus[k].dirty = FALSE],
              raised |-> "none", called |-> TRUE, legs |-> st.legs,
              departure |-> departure, arrival |-> st.progress ]

\* update_stop_times clearing the computed times of the bus before it asks for
\* the directions.
update_stop_times_clear_times(w, k, orders, resp) ==
    LET d == directions(w, k, orders, resp)
        departure == get_departure_time(w, k, d.legs)
        n == Len(takewhile_not_lodge(w, d.legs))
        cleared == { IF so.bus = k THEN [so EXCEPT !.computed_time = NULL] ELSE so :
                       so \in w.stoporder }
        st0 == [ progress |-> departure, stoporder |-> cleared,
                 legs |-> d.legs, raised |-> "none" ]
        st == walk(w, k, st0, 1, n)
    IN IF k.trips_year # ThisYear
       THEN [ w |-> w, raised |-> "DoesNotExist", called |-> FALSE, legs |-> << >>,
              departure |-> NULL, arrival |-> NULL ]
       ELSE IF d.raised # "none"
       THEN [ w |-> [w EXCEPT !.stoporder = cleared],
              raised |-> d.raised, called |-> d.called, legs |-> << >>,
              departure |-> NULL, arrival |-> NULL ]
       ELSE IF st.raised # "none"
       THEN [ w |-> [w EXCEPT !.stoporder = st.stoporder],
              raised |-> st.raised, called |-> TRUE, legs |-> << >>,
              departure |-> departure, arrival |-> NULL ]
       ELSE [ w |-> [w EXCEPT !.stoporder = st.stoporder, !.bus[k].dirty = FALSE],
              raised |-> "none", called |-> TRUE, legs |-> st.legs,
              departure |-> departure, arrival |-> st.progress ]

\* update_stop_times once self.directions has given d, computed now or memoized
\* on the instance by cached_property.
update_stop_times_with(w, k, d) ==
    LET departure == get_departure_time(w, k, d.legs)
        n == Len(takewhile_not_lodge(w, d.legs))
        st0 == [ progress |-> departure, stoporder |-> w.stoporder,
                 legs |-> d.legs, raised |-> "none" ]
        st == walk(w, k, st0, 1, n)
    IN IF k.trips_year # ThisYear
       THEN \* Hanover(trips_year): TransportConfig.DoesNotExist
            [ w |-> w, raised |-> "DoesNotExist", called |-> FALSE, legs |-> << >>,
              departure |-> NULL, arrival |-> NULL ]
       ELSE IF d.raised # "none"
       THEN [ w |-> w, raised |-> d.raised, called |-> d.called, legs |-> << >>,
              departure |-> NULL, arrival |-> NULL ]
       ELSE IF st.raised # "none"
       THEN [ w |-> [w EXCEPT !.stoporder = st.stoporder],
              raised |-> st.raised, called |-> d.called, legs |-> << >>,
              departure |-> departure, arrival |-> NULL ]
       ELSE [ w |-> [w EXCEPT !.stoporder = st.stoporder, !.bus[k].dirty = FALSE],
              raised |-> "none", called |-> d.called, legs |-> st.legs,
              departure |-> departure, arrival |-> st.progress ]

\* InternalBus.update_stop_times. The result: the database afterwards, what
\* was raised, whether the provider was called, the legs returned, the
\* departure time and the progress at the end of the walk.
update_stop_times(w, k, orders, resp) ==
    update_stop_times_with(w, k, directions(w, k, orders, resp))

\* InternalBus.validate_stop_ordering: what it raises.
validate_stop_ordering(w, k) ==
    LET ordered_trips(type) ==
            { so.trip : so \in { x \in stoporder_set(w, k) : x.stop_type = type } }
        trips(type) == IF type = PICKUP THEN picking_up(w, k) ELSE dropping_off(w, k)
        unordered_trips(type) == trips(type) \ ordered_trips(type)
        surplus_trips(type) == ordered_trips(type) \ trips(type)
    IN IF \E type \in {PICKUP, DROPOFF} :
             unordered_trips(type) # {} \/ surplus_trips(type) # {}
       THEN "ValidationError" ELSE "none"

\* sum(trip.size for trip in trips)
RECURSIVE total_size(_, _)
total_size(w, T) ==
    IF T = {} THEN 0
    ELSE LET t == CHOOSE x \in T : TRUE
         IN w.size[t] + total_size(w, T \ {t})

\* The loop of over_capacity over the stops left, with the load so far.
RECURSIVE over_capacity_from(_, _, _, _)
over_capacity_from(w, stops, load, cap) ==
    IF stops = << >> THEN FALSE
    ELSE LET l == load + total_size(w, Head(stops).trips_picked_up)
                       - total_size(w, Head(stops).trips_dropped_off)
         IN IF l > cap THEN TRUE
            ELSE over_capacity_from(w, Tail(stops), l, cap)

\* over_capacity reporting a load that only reaches the capacity.
over_capacity_when_full(w, k, orders) ==
    over_capacity_from(w, all_stops(w, k, orders), 1, w.capacity[k.route])

\* InternalBus.over_capacity
over_capacity(w, k, orders) ==
    over_capacity_from(w, all_stops(w, k, orders), 0, w.capacity[k.route])

\* ------------------------------------------------------ staleness tracker

\* InternalBus.objects.filter(pk__in=K).update(dirty=True)
mark_dirty(w, K) ==
    [ w EXCEPT !.bus = [ k \in BusKeys |->
        IF k \in K /\ w.bus[k].exists THEN [w.bus[k] EXCEPT !.dirty = TRUE]
        ELSE w.bus[k] ] ]

\* Deleting StopOrder rows marks their buses dirty.
delete_stoporders(w, S) ==
    mark_dirty([w EXCEPT !.stoporder = w.stoporder \ S], { so.bus : so \in S })

\* StopOrder.save of a new row: order is populated from stop.distance; the
\* row must be unique in (trips_year, bus, trip); creating it marks the bus dirty.
create_stoporder(w, k, t, type) ==
    LET so == [ bus |-> k, trip |-> t, stop_type |-> type,
                order |-> 0, computed_time |-> NULL, custom_time |-> NULL ]
        row == [so EXCEPT !.order = distance(so_stop(w, so))]
    IN IF \E x \in w.stoporder : x.bus = k /\ x.trip = t
       THEN [w EXCEPT !.error = "IntegrityError"]
       ELSE mark_dirty([w EXCEPT !.stoporder = w.stoporder \cup {row}], {k})

\* Trip.get_dropoff_bus, get_pickup_bus, get_return_bus: the scheduled bus, if any.
scheduled(w, route, date) ==
    { k \in BusKeys : /\ w.bus[k].exists /\ k.trips_year = ThisYear
                      /\ k.route = route /\ k.date = date }

get_dropoff_bus(w, t) == scheduled(w, get_dropoff_route(w, t), dropoff_date(w, t))
get_pickup_bus(w, t) == scheduled(w, get_pickup_route(w, t), pickup_date(w, t))
get_return_bus(w, t) == scheduled(w, get_return_route(w, t), return_date(w, t))

\* The trip's StopOrder of a role leaves the bus it was on.
remove_stoporder(w, t, type) ==
    delete_stoporders(w, { so \in w.stoporder : so.trip = t /\ so.stop_type = type })

\* The trip's StopOrder of a role is created on the bus now scheduled for the
\* trip, if there is one.
place_stoporder(w, t, type) ==
    LET new == IF ~w.trip[t].exists THEN {}
               ELSE IF type = DROPOFF THEN get_dropoff_bus(w, t)
               ELSE get_pickup_bus(w, t)
    IN IF new = {} THEN w
       ELSE create_stoporder(w, CHOOSE k \in new : TRUE, t, type)

\* resolve_dropoff taking the StopOrder off the old bus without marking it dirty.
resolve_dropoff_old_bus_unmarked(w, t) ==
    LET old == { so \in w.stoporder : so.trip = t /\ so.stop_type = DROPOFF }
    IN place_stoporder([w EXCEPT !.stoporder = w.stoporder \ old], t, DROPOFF)

\* signals.resolve_dropoff: the trip's DROPOFF StopOrder leaves the bus it was
\* on and is created on the bus now scheduled for the trip, if there is one.
resolve_dropoff(w, t) == place_stoporder(remove_stoporder(w, t, DROPOFF), t, DROPOFF)

\* signals.resolve_pickup
resolve_pickup(w, t) == place_stoporder(remove_stoporder(w, t, PICKUP), t, PICKUP)

\* A return has no StopOrder: its reassignment marks the bus it leaves (in the
\* database before, w0) and the bus it joins dirty.
resolve_return(w0, w, t) ==
    mark_dirty(w, get_return_bus(w0, t) \cup get_return_bus(w, t))

RECURSIVE remove_all(_, _, _)
remove_all(w, T, type) ==
    IF T = {} THEN w
    ELSE LET t == CHOOSE x \in T : TRUE
         IN remove_all(remove_stoporder(w, t, type), T \ {t}, type)

RECURSIVE place_all(_, _, _)
place_all(w, T, type) ==
    IF T = {} THEN w
    ELSE LET t == CHOOSE x \in T : TRUE
         IN place_all(place_stoporder(w, t, type), T \ {t}, type)

\* The dropoffs of the trips in D and the pickups of the trips in P are
\* migrated: the StopOrders leave their old buses, then are created on the new.
resolve_all(w, D, P) ==
    place_all(place_all(remove_all(remove_all(w, D, DROPOFF), P, PICKUP), D, DROPOFF),
              P, PICKUP)

RECURSIVE resolve_returns(_, _, _)
resolve_returns(w0, w, R) ==
    IF R = {} THEN w
    ELSE LET t == CHOOSE x \in R : TRUE
         IN resolve_returns(w0, resolve_return(w0, w, t), R \ {t})

\* ---------------------------------------------------------------- actions

Quiet(op) ==
    [ op |-> op, buses |-> {}, called |-> FALSE, raised |-> "none", message |-> "",
      departure |-> NULL, arrival |-> NULL, returned |-> NULL,
      stops |-> << >>, legs |-> << >>, over |-> FALSE, trip |-> NULL ]

Commit(w, l) ==
    /\ steps < MaxSteps
    /\ config' = w.config
    /\ stop' = w.stop
    /\ trip' = w.trip
    /\ leaders_arrive' = w.leaders_arrive
    /\ bus' = w.bus
    /\ stoporder' = w.stoporder
    /\ UNCHANGED <<size, capacity, request, held>>
    /\ last' = [l EXCEPT !.raised = IF w.error # "none" THEN w.error ELSE l.raised]
    /\ steps' = steps + 1

\* InternalBusCreateView: a bus is scheduled; its StopOrders are generated.
CreateBus(k) ==
    /\ ~bus[k].exists
    /\ LET w1 == [World EXCEPT !.bus[k] = NewBus]
       IN Commit(resolve_all(w1, dropping_off(w1, k), picking_up(w1, k)),
                 [Quiet("CreateBus") EXCEPT !.buses = {k}])

\* InternalBusDeleteView: the StopOrders go with the bus (on_delete=CASCADE).
DeleteBus(k) ==
    /\ bus[k].exists
    /\ LET w1 == [World EXCEPT !.bus[k] = NoBus,
                               !.stoporder = { so \in stoporder : so.bus # k }]
       IN Commit(w1, [Quiet("DeleteBus") EXCEPT !.buses = {k}])

\* A trip is created.
CreateTrip(t, ds, ps) ==
    /\ ~trip[t].exists
    /\ LET w1 == [World EXCEPT !.trip[t] =
                    [NoTrip EXCEPT !.exists = TRUE, !.dropoff_stop = ds, !.pickup_stop = ps]]
       IN Commit(resolve_all(w1, {t}, {t}), Quiet("CreateTrip"))

\* A trip is deleted: its StopOrders go with it (on_delete=CASCADE).
DeleteTrip(t) ==
    /\ trip[t].exists
    /\ LET w1 == [World EXCEPT !.trip[t] = NoTrip]
       IN Commit(delete_stoporders(w1, { so \in stoporder : so.trip = t }),
                 Quiet("DeleteTrip"))

\* Trip.dropoff_route, pickup_route or return_route is changed and saved.
SaveTripRoute(t, field, r) ==
    /\ trip[t].exists
    /\ CASE field = "dropoff_route" ->
              /\ trip[t].dropoff_route # r
              /\ Commit(resolve_dropoff([World EXCEPT !.trip[t].dropoff_route = r], t),
                        Quiet("SaveTripRoute"))
         [] field = "pickup_route" ->
              /\ trip[t].pickup_route # r
              /\ Commit(resolve_pickup([World EXCEPT !.trip[t].pickup_route = r], t),
                        Quiet("SaveTripRoute"))
         [] OTHER ->
              /\ trip[t].return_route # r
              /\ Commit(resolve_return(World, [World EXCEPT !.trip[t].return_route = r], t),
                        Quiet("SaveTripRoute"))

\* Stop.route is changed and saved.
SaveStopRoute(s, r) ==
    /\ stop[s].route # r
    /\ LET w1 == [World EXCEPT !.stop[s].route = r]
       IN Commit(resolve_all(w1,
                    { t \in Trips : trip[t].exists /\ trip[t].dropoff_stop = s },
                    { t \in Trips : trip[t].exists /\ trip[t].pickup_stop = s }),
                 Quiet("SaveStopRoute"))

\* TripTemplate.dropoff_stop or pickup_stop is changed and saved.
SaveTemplateStop(t, field, s) ==
    /\ trip[t].exists
    /\ IF field = "dropoff_stop"
       THEN /\ trip[t].dropoff_stop # s
            /\ Commit(resolve_dropoff([World EXCEPT !.trip[t].dropoff_stop = s], t),
                      Quiet("SaveTemplateStop"))
       ELSE /\ trip[t].pickup_stop # s
            /\ Commit(resolve_pickup([World EXCEPT !.trip[t].pickup_stop = s], t),
                      Quiet("SaveTemplateStop"))

\* Section.leaders_arrive is changed and saved.
SaveSection(x, d) ==
    /\ leaders_arrive[x] # d
    /\ LET w1 == [World EXCEPT !.leaders_arrive[x] = d]
           T == { t \in Trips : trip[t].exists /\ section_of(t) = x }
       IN Commit(resolve_returns(World, resolve_all(w1, T, T), T), Quiet("SaveSection"))

\* The dropoff and the pickup of one trip resolved one after the other by
\* resolve_dropoff and resolve_pickup, the role named first going first.
resolve_trip(w, t, first) ==
    IF first = DROPOFF THEN resolve_pickup(resolve_dropoff(w, t), t)
    ELSE resolve_dropoff(resolve_pickup(w, t), t)

RECURSIVE resolve_trips(_, _, _)
resolve_trips(w, T, first) ==
    IF T = {} THEN w
    ELSE LET t == CHOOSE x \in T : TRUE
         IN resolve_trips(resolve_trip(w, t, first), T \ {t}, first)

\* Section.leaders_arrive is changed and saved, the handler resolving the trips
\* of the section one by one, each role by its own function.
SaveSectionByTrip(x, d, first) ==
    /\ leaders_arrive[x] # d
    /\ LET w1 == [World EXCEPT !.leaders_arrive[x] = d]
           T == { t \in Trips : trip[t].exists /\ section_of(t) = x }
       IN Commit(resolve_returns(World, resolve_trips(w1, T, first), T),
                 Quiet("SaveSection"))

\* The buses that stop at s for a dropoff or a pickup.
buses_stopping_at(w, s) == { so.bus : so \in { x \in w.stoporder : so_stop(w, x) = s } }

\* Every bus of the trips year of the TransportConfig.
buses_of_year(w, year) == { k \in BusKeys : k.trips_year = year }

\* The handler marking only the buses that drop a trip off at the stop.
stop_location_changed_dropoffs_only(w, s) ==
    mark_dirty(w, { so.bus : so \in { x \in w.stoporder :
                                          x.stop_type = DROPOFF /\ so_stop(w, x) = s } }
                  \cup ( IF s \in {w.config.hanover, w.config.lodge}
                         THEN buses_of_year(w, ThisYear) ELSE {} ))

\* The handler marking every bus of the year, whatever the stop.
stop_location_changed_whole_year(w, s) == mark_dirty(w, buses_of_year(w, ThisYear))

\* Stop.address or Stop.lat_lng is changed and saved.
stop_location_changed(w, s) ==
    mark_dirty(w, buses_stopping_at(w, s)
                  \cup ( IF s \in {w.config.hanover, w.config.lodge}
                         THEN buses_of_year(w, ThisYear) ELSE {} ))

SaveStopLocation(s, l) ==
    /\ stop[s].location # l
    /\ Commit(stop_location_changed([World EXCEPT !.stop[s].location = l], s),
              Quiet("SaveStopLocation"))

\* The handler marking the buses of every trips year.
config_changed_every_year(w) == mark_dirty(w, BusKeys)

\* TransportConfig.hanover or lodge is changed and saved.
config_changed(w) == mark_dirty(w, buses_of_year(w, ThisYear))

SaveConfig(field, s) ==
    IF field = "hanover"
    THEN /\ config.hanover # s
         /\ Commit(config_changed([World EXCEPT !.config.hanover = s]), Quiet("SaveConfig"))
    ELSE /\ config.lodge # s
         /\ Commit(config_changed([World EXCEPT !.config.lodge = s]), Quiet("SaveConfig"))

\* bus.update_stop_times() called on a bus by a caller that does not look at
\* the dirty flag, as the tests of the timing do.
UpdateStopTimes(k, orders, resp) ==
    /\ bus[k].exists
    /\ LET r == update_stop_times(World, k, orders, resp)
       IN Commit(r.w, [ Quiet("update_stop_times") EXCEPT
                          !.buses = {k}, !.called = r.called, !.raised = r.raised,
                          !.departure = r.departure, !.arrival = r.arrival,
                          !.stops = all_stops(World, k, orders), !.legs = r.legs ])

\* StopOrder.time recomputing the times whether or not the bus is dirty.
time_always_updates(w, so, orders, resp) ==
    IF w.bus[so.bus].use_custom_times
    THEN [ w |-> w, raised |-> "none", called |-> FALSE, returned |-> so.custom_time,
           departure |-> NULL, arrival |-> NULL ]
    ELSE LET r == update_stop_times(w, so.bus, orders, resp)
             fresh == { x \in r.w.stoporder :
                          x.bus = so.bus /\ x.trip = so.trip /\ x.stop_type = so.stop_type }
         IN [ w |-> r.w, raised |-> r.raised, called |-> r.called,
              returned |-> IF r.raised = "none"
                           THEN (CHOOSE x \in fresh : TRUE).computed_time ELSE NULL,
              departure |-> r.departure, arrival |-> r.arrival ]

\* StopOrder.time returning the stored time without looking at the dirty flag.
time_never_updates(w, so, orders, resp) ==
    IF w.bus[so.bus].use_custom_times
    THEN [ w |-> w, raised |-> "none", called |-> FALSE, returned |-> so.custom_time,
           departure |-> NULL, arrival |-> NULL ]
    ELSE [ w |-> w, raised |-> "none", called |-> FALSE, returned |-> so.computed_time,
           departure |-> NULL, arrival |-> NULL ]

\* StopOrder.time: what reading the property does and returns.
time(w, so, orders, resp) ==
    IF w.bus[so.bus].use_custom_times
    THEN [ w |-> w, raised |-> "none", called |-> FALSE, returned |-> so.custom_time,
           departure |-> NULL, arrival |-> NULL ]
    ELSE IF w.bus[so.bus].dirty
    THEN LET r == update_stop_times(w, so.bus, orders, resp)
             fresh == { x \in r.w.stoporder :
                          x.bus = so.bus /\ x.trip = so.trip /\ x.stop_type = so.stop_type }
         IN [ w |-> r.w, raised |-> r.raised, called |-> r.called,
              returned |-> IF r.raised = "none"
                           THEN (CHOOSE x \in fresh : TRUE).computed_time ELSE NULL,
              departure |-> r.departure, arrival |-> r.arrival ]
    ELSE [ w |-> w, raised |-> "none", called |-> FALSE, returned |-> so.computed_time,
           departure |-> NULL, arrival |-> NULL ]

Time(so, orders, resp) ==
    LET r == time(World, so, orders, resp)
    IN Commit(r.w, [ Quiet("time") EXCEPT
                       !.buses = {so.bus}, !.called = r.called, !.raised = r.raised,
                       !.departure = r.departure, !.arrival = r.arrival,
                       !.returned = r.returned, !.trip = so.trip ])

\* The order key saved without the bus being marked.
SaveOrder_unmarked(so, o) ==
    /\ so.order # o
    /\ Commit([World EXCEPT !.stoporder =
                  (stoporder \ {so}) \cup {[so EXCEPT !.order = o]}],
              [Quiet("SaveOrder") EXCEPT !.buses = {so.bus}])

\* OrderStops: the operator edits the order key of a StopOrder; the change of
\* the tracked field marks the bus dirty.
SaveOrder(so, o) ==
    /\ so.order # o
    /\ Commit(mark_dirty([World EXCEPT !.stoporder =
                            (stoporder \ {so}) \cup {[so EXCEPT !.order = o]}], {so.bus}),
              [Quiet("SaveOrder") EXCEPT !.buses = {so.bus}])

\* The operator enters or clears the custom time of a StopOrder.
SaveCustomTime(so, c) ==
    /\ so.custom_time # c
    /\ Commit([World EXCEPT !.stoporder =
                  (stoporder \ {so}) \cup {[so EXCEPT !.custom_time = c]}],
              [Quiet("SaveCustomTime") EXCEPT !.buses = {so.bus}])

\* InternalBusUpdateView: the operator sets or clears use_custom_times.
SaveBus(k, flag) ==
    /\ bus[k].exists
    /\ bus[k].use_custom_times # flag
    /\ Commit([World EXCEPT !.bus[k].use_custom_times = flag],
              [Quiet("SaveBus") EXCEPT !.buses = {k}])

\* No InternalBus instance is held in memory.
NoInstance ==
    [ loaded |-> FALSE, bus |-> [trips_year |-> "none", route |-> 0, date |-> 0],
      dirty |-> FALSE, stops |-> << >>, legs |-> << >>, was_dirty |-> FALSE,
      called |-> FALSE, flight |-> FALSE ]

\* No direct call of get_directions has been made.
NoRequest == [ stops |-> << >>, ok |-> FALSE, resp |-> Failure ]

\* A Stop handed to get_directions by a caller other than a bus: it carries no
\* trips.
bare_stop(s) == [ stop |-> s, trips_dropped_off |-> {}, trips_picked_up |-> {} ]

\* maps.get_directions(stops) called directly, as the tests of the module do.
GetDirections(stops, resp) ==
    /\ steps = 0
    /\ LET d == get_directions(stops, resp)
       IN /\ request' = [ stops |-> stops, ok |-> resp.ok /\ resp = Answer(resp.dur),
                          resp |-> resp ]
          /\ last' = [ Quiet("get_directions") EXCEPT
                         !.called = d.called, !.raised = d.raised,
                         !.message = d.message, !.stops = stops, !.legs = d.legs ]
    /\ steps' = steps + 1
    /\ UNCHANGED <<config, stop, trip, leaders_arrive, bus, stoporder, size, capacity,
                   held>>

\* bus.all_stops is read.
AllStops(k, orders) ==
    /\ steps = 0
    /\ bus[k].exists
    /\ last' = [ Quiet("all_stops") EXCEPT
                   !.buses = {k}, !.stops = all_stops(World, k, orders) ]
    /\ steps' = steps + 1
    /\ UNCHANGED <<config, stop, trip, leaders_arrive, bus, stoporder, size, capacity,
                   request, held>>

\* bus.over_capacity() is called.
OverCapacity(k, orders) ==
    /\ steps = 0
    /\ bus[k].exists
    /\ last' = [ Quiet("over_capacity") EXCEPT
                   !.buses = {k}, !.stops = all_stops(World, k, orders),
                   !.over = over_capacity(World, k, orders) ]
    /\ steps' = steps + 1
    /\ UNCHANGED <<config, stop, trip, leaders_arrive, bus, stoporder, size, capacity,
                   request, held>>

\* ------------------------------------------------------------ initial states

\* The trips year as set up: two trips on their templates' stops, the buses
\* scheduled on day 4, last year's bus clean.
Setup(la) ==
    LET w0 == [ config |-> [hanover |-> 1, lodge |-> 2],
                stop |-> [ s \in Stops |->
                    [ route |-> CASE s = 3 -> 1 [] s = 4 -> 2 [] OTHER -> NULL,
                      location |-> 0 ] ],
                trip |-> [ t \in Trips |->
                    IF t = 3 THEN NoTrip
                    ELSE [NoTrip EXCEPT !.exists = TRUE,
                                        !.dropoff_stop = 3,
                                        !.pickup_stop = IF t = 1 THEN 3 ELSE 4] ],
                leaders_arrive |-> la,
                bus |-> [ k \in BusKeys |->
                    IF k.trips_year = OldYear THEN [NewBus EXCEPT !.dirty = FALSE]
                    ELSE IF k.date = 4 THEN NewBus ELSE NoBus ],
                stoporder |-> {},
                size |-> [ t \in Trips |-> 1 ],
                capacity |-> [ r \in Routes \cup {3} |-> 2 ],
                error |-> "none" ]
    IN resolve_all(w0, Trips, Trips)

\* The buses of a set, each with its times computed from the response given:
\* the database once the pages of the buses have been read.
RECURSIVE Resolved(_, _, _)
Resolved(w, K, resp) ==
    IF K = {} THEN w
    ELSE LET k == CHOOSE x \in K : TRUE
         IN Resolved(update_stop_times(w, k, CHOOSE o \in orderings(w, k) : TRUE, resp).w,
                     K \ {k}, resp)

Init ==
    \E la \in [Sections -> {0, 2}] :
        LET w == Resolved(Setup(la), { k \in BusKeys : k.trips_year = ThisYear },
                          Answer(<< 30, 120, 30, 120 >>))
        IN /\ config = w.config
           /\ stop = w.stop
           /\ trip = w.trip
           /\ leaders_arrive = w.leaders_arrive
           /\ bus = w.bus
           /\ stoporder = w.stoporder
           /\ size = w.size
           /\ capacity = w.capacity
           /\ request = NoRequest
           /\ held = NoInstance
           /\ last = Quiet("init")
           /\ steps = 0

\* Every operation counts as a step: none is taken once MaxSteps have been.
Next ==
    \/ /\ steps < MaxSteps
       /\ \E k \in BusKeys : CreateBus(k)
    \/ /\ steps < MaxSteps
       /\ \E k \in BusKeys : DeleteBus(k)
    \/ /\ steps < MaxSteps
       /\ \E t \in Trips, ds, ps \in TemplateStops : CreateTrip(t, ds, ps)
    \/ /\ steps < MaxSteps
       /\ \E t \in Trips : DeleteTrip(t)
    \/ /\ steps < MaxSteps
       /\ \E t \in Trips, f \in {"dropoff_route", "pickup_route", "return_route"},
             r \in Routes \cup {NULL} : SaveTripRoute(t, f, r)
    \/ /\ steps < MaxSteps
       /\ \E s \in TemplateStops, r \in Routes \cup {NULL} : SaveStopRoute(s, r)
    \/ /\ steps < MaxSteps
       /\ \E t \in Trips, f \in {"dropoff_stop", "pickup_stop"}, s \in TemplateStops :
             SaveTemplateStop(t, f, s)
    \/ /\ steps < MaxSteps
       /\ \E x \in Sections, d \in LeadersArrive : SaveSection(x, d)
    \/ /\ steps < MaxSteps
       /\ \E s \in Stops, l \in Locations : SaveStopLocation(s, l)
    \/ /\ steps < MaxSteps
       /\ \E f \in {"hanover", "lodge"}, s \in Stops : SaveConfig(f, s)
    \/ /\ steps < MaxSteps
       /\ \E so \in stoporder, o \in Orders : SaveOrder(so, o)
    \/ /\ steps < MaxSteps
       /\ \E so \in stoporder, c \in CustomTimes \cup {NULL} : SaveCustomTime(so, c)
    \/ /\ steps < MaxSteps
       /\ \E k \in BusKeys, flag \in BOOLEAN : SaveBus(k, flag)
    \/ /\ steps < MaxSteps
       /\ \E k \in BusKeys, resp \in Responses :
             \E orders \in orderings(World, k) : UpdateStopTimes(k, orders, resp)
    \/ /\ steps < MaxSteps
       /\ \E so \in stoporder, resp \in Responses :
             \E orders \in orderings(World, so.bus) : Time(so, orders, resp)

Spec == Init /\ [][Next]_vars

\* The database is w.
Database(w) ==
    /\ config = w.config
    /\ stop = w.stop
    /\ trip = w.trip
    /\ leaders_arrive = w.leaders_arrive
    /\ bus = w.bus
    /\ stoporder = w.stoporder
    /\ size = w.size
    /\ capacity = w.capacity

\* The longest list of stops handed to get_directions.
MaxStops == 11

\* The lists of stops handed to get_directions.
StopLists ==
    UNION { [1 .. n -> { bare_stop(s) : s \in TemplateStops }] : n \in 1 .. MaxStops }

\* Direct calls of get_directions, each on the database as set up.
InitDirections ==
    /\ Database(Setup([x \in Sections |-> 0]))
    /\ request = NoRequest
    /\ held = NoInstance
    /\ last = Quiet("init")
    /\ steps = 0

NextDirections ==
    /\ steps = 0
    /\ \E stops \in StopLists, resp \in AnyResponses : GetDirections(stops, resp)

SpecDirections == InitDirections /\ [][NextDirections]_vars

\* The bus whose itinerary is built: route 1 on day 5.
TheBus == [ trips_year |-> ThisYear, route |-> 1, date |-> 5 ]

\* The days on which the leaders of a section arrive: the trips of the section
\* are returned (0), picked up (1), not carried (2) or dropped off (3) on day 5.
ItineraryArrivals == 0 .. 3
Sizes == {1, 2}
Capacities == {2, 3}

\* Three trips of route 1, trip t with its dropoff and pickup stop at at[t],
\* and the bus of day 5 with the StopOrders generated for it.
ItinerarySetup(la, at) ==
    LET w0 == [ config |-> [hanover |-> 1, lodge |-> 2],
                stop |-> [ s \in Stops |->
                    [ route |-> IF s \in TemplateStops THEN 1 ELSE NULL, location |-> 0 ] ],
                trip |-> [ t \in Trips |->
                    [NoTrip EXCEPT !.exists = TRUE, !.dropoff_stop = at[t],
                                   !.pickup_stop = at[t], !.return_route = 1] ],
                leaders_arrive |-> la,
                bus |-> [ k \in BusKeys |-> IF k = TheBus THEN NewBus ELSE NoBus ],
                stoporder |-> {},
                size |-> [ t \in Trips |-> 1 ],
                capacity |-> [ r \in Routes \cup {3} |-> 2 ],
                error |-> "none" ]
    IN resolve_all(w0, Trips, Trips)

\* OrderStops: the operator has given the StopOrder of trip t the key keys[t].
with_orders(w, keys) ==
    [ w EXCEPT !.stoporder = { [so EXCEPT !.order = keys[so.trip]] : so \in w.stoporder } ]

\* The itineraries read: every assignment of the trips to roles and stops,
\* every choice of order keys, trip sizes and vehicle capacity.
InitItinerary ==
    \E la \in [Sections -> ItineraryArrivals], at \in [Trips -> TemplateStops],
       keys \in [Trips -> Orders], sz \in [Trips -> Sizes], cap \in Capacities :
        LET w == with_orders(ItinerarySetup(la, at), keys)
        IN /\ Database([w EXCEPT !.size = sz, !.capacity[1] = cap])
           /\ request = NoRequest
           /\ held = NoInstance
           /\ last = Quiet("init")
           /\ steps = 0

\* The operator has entered the custom time ct[t] for the StopOrder of trip t.
with_custom_times(w, ct) ==
    [ w EXCEPT !.stoporder =
        { [so EXCEPT !.custom_time = ct[so.trip]] : so \in w.stoporder } ]

\* The bus of day 5 with its trips, with or without times computed before, the
\* custom times entered and use_custom_times set or not; one operation follows.
InitCustomTimes ==
    \E la \in [Sections -> ItineraryArrivals], at \in [Trips -> TemplateStops],
       ct \in [Trips -> CustomTimes \cup {NULL}], computed, flag \in BOOLEAN :
        LET w0 == ItinerarySetup(la, at)
            w1 == IF computed
                  THEN Resolved(w0, {TheBus}, Answer(<< 30, 120, 30, 120 >>))
                  ELSE w0
            w2 == with_custom_times(w1, ct)
        IN /\ Database([w2 EXCEPT !.bus[TheBus].use_custom_times = flag])
           /\ request = NoRequest
           /\ held = NoInstance
           /\ last = Quiet("init")
           /\ steps = MaxSteps - 1

NextCustomTimes ==
    \/ \E k \in BusKeys, resp \in Responses :
          \E orders \in orderings(World, k) : UpdateStopTimes(k, orders, resp)
    \/ \E so \in stoporder, resp \in Responses :
          \E orders \in orderings(World, so.bus) : Time(so, orders, resp)

SpecCustomTimes == InitCustomTimes /\ [][NextCustomTimes]_vars

\* Route, stop and section-date changes, the StopOrders of each trip re-resolved
\* role by role.
NextReassign ==
    \/ \E t \in Trips, f \in {"dropoff_route", "pickup_route", "return_route"},
          r \in Routes \cup {NULL} : SaveTripRoute(t, f, r)
    \/ \E s \in TemplateStops, r \in Routes \cup {NULL} : SaveStopRoute(s, r)
    \/ \E t \in Trips, f \in {"dropoff_stop", "pickup_stop"}, s \in TemplateStops :
          SaveTemplateStop(t, f, s)
    \/ \E x \in Sections, d \in LeadersArrive, first \in {DROPOFF, PICKUP} :
          SaveSectionByTrip(x, d, first)

SpecReassign == Init /\ [][NextReassign]_vars

NextItinerary ==
    \/ \E k \in BusKeys : \E orders \in orderings(World, k) : AllStops(k, orders)
    \/ \E k \in BusKeys : \E orders \in orderings(World, k) : OverCapacity(k, orders)

SpecItinerary == InitItinerary /\ [][NextItinerary]_vars

\* ------------------------------------------------------------- properties

\* The database after the step.
WorldAfter ==
    [ config |-> config', stop |-> stop', trip |-> trip',
      leaders_arrive |-> leaders_arrive', bus |-> bus', stoporder |-> stoporder',
      size |-> size', capacity |-> capacity', error |-> "none" ]

\* The step was a resolve: update_stop_times called directly or through
\* StopOrder.time.
Resolves(l) == l.op \in {"update_stop_times", "time"}

\* C1. Dirty monotonicity: a bus that is dirty stays dirty in every step, except
\* a step in which update_stop_times ran for that bus, reached the provider and
\* raised nothing; in particular a failed resolve leaves the bus dirty.
C1_DirtyMonotonicity ==
    [][ \A k \in BusKeys :
          (bus[k].exists /\ bus[k].dirty /\ bus'[k].exists /\ ~bus'[k].dirty)
          => /\ Resolves(last')
             /\ k \in last'.buses
             /\ last'.called
             /\ last'.raised = "none" ]_vars

\* A resolve of a dirty bus has failed and the bus is dirty.
C1_Witness ==
    /\ last.op = "update_stop_times"
    /\ last.called
    /\ last.raised = "MapError"
    /\ \E k \in last.buses : bus[k].dirty /\ stoporder_set(World, k) # {}

\* C2. A failed resolve is atomic: when the directions call of update_stop_times
\* raises, every StopOrder is what it was before the call (no computed_time has
\* changed) and the dirty flag of the bus is what it was, True on a dirty bus.
C2_ResolveFailureAtomic ==
    [][ (Resolves(last') /\ last'.called /\ last'.raised = "MapError")
        => /\ stoporder' = stoporder
           /\ \A k \in last'.buses : bus'[k].dirty = bus[k].dirty ]_vars

\* The directions call failed for a dirty bus whose StopOrders have the times
\* computed before.
C2_Witness ==
    /\ Resolves(last)
    /\ last.raised = "MapError"
    /\ \E so \in stoporder :
          so.bus \in last.buses /\ so.computed_time # NULL /\ bus[so.bus].dirty

Resolved_ok(l) == Resolves(l) /\ l.called /\ l.raised = "none"

\* C5. Anchor floor: when a bus that visits the Lodge has been resolved, the
\* arrival at the Lodge reached by the walk of update_stop_times (departure
\* time, leg durations, loading time at each stop) is not before 11:00.
C5_AnchorFloor ==
    (Resolved_ok(last) /\ \E k \in last.buses : visits_lodge(World, k))
    => last.arrival >= MIN_LODGE_ARRIVAL_TIME

\* C6. Minimal delay: the departure time is 7:30 when the bus does not visit
\* the Lodge or the walk from 7:30 reaches the Lodge at or after 11:00;
\* otherwise it is such that the walk reaches the Lodge at 11:00 exactly.
C6_MinimalDelay ==
    Resolved_ok(last)
    => LET duration == last.arrival - last.departure
       IN IF \/ \A k \in last.buses : ~visits_lodge(World, k)
             \/ DEPARTURE_TIME + duration >= MIN_LODGE_ARRIVAL_TIME
          THEN last.departure = DEPARTURE_TIME
          ELSE last.departure = MIN_LODGE_ARRIVAL_TIME - duration

\* The trip's StopOrder of a role and the dirty flags after the trip moved from
\* the buses old to the buses new (each the scheduled bus, or none).
Migrated(old, new, t, type) ==
    old # new =>
       /\ \A k \in old \cup new : bus'[k].dirty
       /\ \A so \in stoporder' : (so.trip = t /\ so.stop_type = type) => so.bus \in new
       /\ \A k \in new :
             Cardinality({ so \in stoporder' :
                             so.bus = k /\ so.trip = t /\ so.stop_type = type }) = 1

C8_AnchorChange ==
    [][ ( \/ config' # config
          \/ \E s \in {config.hanover, config.lodge} :
                stop'[s].location # stop[s].location )
        => \A k \in BusKeys :
              /\ (k.trips_year = ThisYear /\ bus'[k].exists) => bus'[k].dirty
              /\ k.trips_year # ThisYear => bus'[k] = bus[k] ]_vars

\* The configuration has changed: a bus with computed times is dirty, the bus
\* of the other year is clean.
C8_Witness ==
    /\ last.op = "SaveConfig"
    /\ \E so \in stoporder : so.computed_time # NULL /\ bus[so.bus].dirty
    /\ \E k \in BusKeys : k.trips_year = OldYear /\ bus[k].exists /\ ~bus[k].dirty

\* C9. Stop address: when the address of a Stop changes, every bus with a
\* StopOrder whose stop it is (a dropoff or a pickup there) is dirty afterwards.
C9_StopAddressChange ==
    [][ \A s \in Stops :
          stop'[s].location # stop[s].location
          => \A so \in stoporder :
                (IF so.stop_type = DROPOFF THEN trip[so.trip].dropoff_stop
                 ELSE trip[so.trip].pickup_stop) = s
                => bus'[so.bus].dirty ]_vars

\* The address of the stop of a pickup has changed: the bus, whose times were
\* computed, is dirty.
C9_Witness ==
    /\ last.op = "SaveStopLocation"
    /\ \E so \in stoporder :
          /\ so.stop_type = PICKUP
          /\ stop[so_stop(World, so)].location = 1
          /\ so.computed_time # NULL
          /\ bus[so.bus].dirty

\* C10. No leakage: when the address of a Stop changes that is neither Hanover
\* nor the Lodge, a bus with no StopOrder at the stop keeps its dirty flag and
\* its StopOrders with their computed times, and the provider is not called.
C10_NoCrossRouteLeakage ==
    [][ \A s \in Stops :
          (stop'[s].location # stop[s].location /\ s \notin {config.hanover, config.lodge})
          => /\ ~last'.called
             /\ \A k \in BusKeys :
                   (\A so \in stoporder_set(World, k) : so_stop(World, so) # s)
                   => /\ bus'[k] = bus[k]
                      /\ stoporder_set(WorldAfter, k) = stoporder_set(World, k) ]_vars

\* The address of a stop has changed and a bus that does not stop there is
\* clean, with its computed times.
C10_Witness ==
    /\ last.op = "SaveStopLocation"
    /\ ~last.called
    /\ \E s \in Stops \ {config.hanover, config.lodge} :
          /\ stop[s].location = 1
          /\ \E k \in BusKeys :
                /\ bus[k].exists /\ ~bus[k].dirty
                /\ stoporder_set(World, k) # {}
                /\ \A so \in stoporder_set(World, k) :
                      so_stop(World, so) # s /\ so.computed_time # NULL

\* The StopOrders of a bus as the itinerary sees them: trip, role, order key.
order_rows(S, k) == { << so.trip, so.stop_type, so.order >> : so \in { x \in S : x.bus = k } }

\* C11. Whenever a StopOrder of a bus is created, deleted or has its order key
\* changed, the bus (if it is still there) is dirty after the step.
C11_StopOrderChangeMarksDirty ==
    [][ \A k \in BusKeys :
          (bus'[k].exists /\ order_rows(stoporder', k) # order_rows(stoporder, k))
          => bus'[k].dirty ]_vars

\* The order key of a StopOrder of a bus that was clean has been edited, and
\* the bus is dirty.
C11_Witness ==
    /\ last.op = "SaveOrder"
    /\ steps = 2
    /\ \E k \in last.buses :
          /\ bus[k].dirty
          /\ \E so \in stoporder_set(World, k) : so.order # distance(so_stop(World, so))

\* The bus has no dropoff, pickup or return trips.
no_obligations(w, k) ==
    dropping_off(w, k) = {} /\ picking_up(w, k) = {} /\ returning(w, k) = {}

\* C19. Resolving a bus with no dropoff, pickup or return trips (its stops are
\* the single Hanover visit) raises nothing, returns no legs and changes no
\* StopOrder.
C19_ZeroObligationsNoOp ==
    [][ ( /\ last'.op = "update_stop_times"
          /\ \A k \in last'.buses : k.trips_year = ThisYear /\ no_obligations(World, k) )
        => /\ Len(last'.stops) = 1
           /\ last'.raised = "none"
           /\ last'.legs = << >>
           /\ stoporder' = stoporder ]_vars

\* C17. For every list of N >= 2 stops that the provider answers,
\* get_directions returns N - 1 legs, leg i from stops[i] to stops[i + 1], also
\* when the list has more waypoints than the provider takes in one request.
C17_ChunkingCorrectness ==
    ( last.op = "get_directions" /\ Len(request.stops) >= 2 /\ request.ok )
    => /\ last.raised = "none"
       /\ Len(last.legs) = Len(request.stops) - 1
       /\ \A i \in 1 .. Len(last.legs) :
             /\ last.legs[i].start_stop = request.stops[i]
             /\ last.legs[i].end_stop = request.stops[i + 1]

\* C18. get_directions called with a single stop raises MapError with the
\* message 'Only one stop provided' and does not ask the provider.
C18_SingleStopRejected ==
    ( last.op = "get_directions" /\ Len(request.stops) = 1 )
    => /\ last.raised = "MapError"
       /\ last.message = "Only one stop provided"
       /\ ~last.called

\* The positions of the visits of stop s in a list of stops.
visits_of(stops, s) == { i \in 1 .. Len(stops) : stops[i].stop = s }

intermediate(stops) ==
    { i \in 2 .. Len(stops) : stops[i].stop \notin {config.hanover, config.lodge} }

\* The StopOrders of bus k behind a visit: those of the trips dropped off and
\* picked up there.
rows_of(k, visit) ==
    { so \in stoporder_set(World, k) :
        \/ so.stop_type = DROPOFF /\ so.trip \in visit.trips_dropped_off
        \/ so.stop_type = PICKUP /\ so.trip \in visit.trips_picked_up }

trips_at(k, s, type) ==
    { so.trip : so \in { x \in stoporder_set(World, k) :
                            x.stop_type = type /\ so_stop(World, x) = s } }

\* C15. Stop collapsing: every stop is visited at most once among the
\* intermediate visits of all_stops, and its visit carries every trip the bus
\* drops off there and every trip it picks up there, whatever the order keys.
C15_StopCollapsing ==
    last.op = "all_stops" =>
        \A k \in last.buses :
            \A i, j \in intermediate(last.stops) :
                /\ last.stops[i].stop = last.stops[j].stop => i = j
                /\ last.stops[i].trips_dropped_off = trips_at(k, last.stops[i].stop, DROPOFF)
                /\ last.stops[i].trips_picked_up = trips_at(k, last.stops[i].stop, PICKUP)

\* The people on the bus when it leaves visit number i of stops.
RECURSIVE running_load(_, _)
running_load(stops, i) ==
    IF i = 0 THEN 0
    ELSE running_load(stops, i - 1)
         + total_size(World, stops[i].trips_picked_up)
         - total_size(World, stops[i].trips_dropped_off)

\* C16. over_capacity() is True exactly when the running load over all_stops
\* exceeds the capacity of the vehicle of the route at some stop: a load equal to
\* the capacity is not over, and a load over the capacity at one stop is reported
\* whatever the load at the later stops.
C16_CapacityConservatism ==
    last.op = "over_capacity" =>
        \A k \in last.buses :
            last.over <=> \E i \in 1 .. Len(last.stops) :
                              running_load(last.stops, i) > capacity[k.route]

\* over_capacity() has reported a bus whose load exceeds the capacity at one
\* stop, equals it at another and is below it at the end.
C16_Witness ==
    /\ last.op = "over_capacity"
    /\ last.over
    /\ \A k \in last.buses :
          /\ \E i \in 1 .. Len(last.stops) :
                running_load(last.stops, i) = capacity[k.route]
          /\ running_load(last.stops, Len(last.stops)) < capacity[k.route]

\* The custom times of the StopOrders of the trips picked up at a visit.
pickup_custom_times(k, visit) ==
    { so.custom_time : so \in { x \in stoporder_set(World, k) :
                                   x.stop_type = PICKUP /\ x.trip \in visit.trips_picked_up } }

\* C20. On a bus with use_custom_times set, StopOrder.time returns the custom
\* time of the StopOrder as entered, without computing anything; and the legs
\* update_stop_times returns have no end_time, and a start_time that is null or
\* the custom time of the trips picked up at the stop the leg starts from.
C20_ManualOverride ==
    [][ /\ ( last'.op = "time" /\ \A k \in last'.buses : bus[k].use_custom_times )
           => /\ \A so \in stoporder :
                    (so.bus \in last'.buses /\ so.trip = last'.trip)
                    => last'.returned = so.custom_time
              /\ ~last'.called
              /\ stoporder' = stoporder
        /\ ( /\ last'.op = "update_stop_times"
             /\ last'.raised = "none"
             /\ \A k \in last'.buses : bus[k].use_custom_times )
           => \A k \in last'.buses :
                 \A i \in 1 .. Len(last'.legs) :
                     /\ last'.legs[i].end_time = NULL
                     /\ last'.legs[i].start_time
                          \in {NULL} \cup pickup_custom_times(k, last'.legs[i].start_stop)
      ]_vars

\* update_stop_times of a bus with use_custom_times set has returned a leg that
\* starts at the custom time of the trip picked up where it starts, and the
\* StopOrder of that trip has a computed time other than its custom time.
C20_Witness ==
    /\ last.op = "update_stop_times"
    /\ last.raised = "none"
    /\ \A k \in last.buses : bus[k].use_custom_times
    /\ \E i \in 1 .. Len(last.legs) : last.legs[i].start_time \in CustomTimes
    /\ \E so \in stoporder :
          /\ so.bus \in last.buses
          /\ so.custom_time \in CustomTimes
          /\ so.computed_time # NULL
          /\ so.computed_time # so.custom_time

\* C30. On a bus with use_custom_times set update_stop_times completes whatever
\* custom times were entered: it never raises AssertionError, so it never stops
\* after writing only some of the computed times.
C30_CustomTimesAssertionHolds ==
    ( last.op = "update_stop_times" /\ \A k \in last.buses : bus[k].use_custom_times )
    => last.raised # "AssertionError"

\* The people on the bus at visit number i of stops once the trips picked up
\* there have boarded and before the trips dropped off there have left.
peak_load(stops, i) ==
    running_load(stops, i - 1) + total_size(World, stops[i].trips_picked_up)

\* C26. The capacity walk compares the load with the capacity at the peak of
\* each stop, after the trips picked up there have boarded and before the trips
\* dropped off there have left: a bus whose peak load at some stop exceeds the
\* capacity is reported over capacity.
C26_PeakLoadFlagged ==
    last.op = "over_capacity" =>
        \A k \in last.buses :
            ( \E i \in 1 .. Len(last.stops) : peak_load(last.stops, i) > capacity[k.route] )
            => last.over

\* C28. Load conservation: on a bus whose StopOrders match its dropoff and
\* pickup trips (validate_stop_ordering raises nothing) the running load along
\* all_stops is negative at no stop and is zero after the last stop.
C28_LoadConservation ==
    last.op \in {"all_stops", "over_capacity"} =>
        \A k \in last.buses :
            validate_stop_ordering(World, k) = "none"
            => /\ \A i \in 1 .. Len(last.stops) : running_load(last.stops, i) >= 0
               /\ running_load(last.stops, Len(last.stops)) = 0

\* The stops of a bus that drops trips off, picks a trip up and carries people
\* on the way have been read.
C28_Witness ==
    /\ last.op = "all_stops"
    /\ Len(last.stops) >= 4
    /\ running_load(last.stops, 1) >= 2
    /\ \A k \in last.buses :
          /\ validate_stop_ordering(World, k) = "none"
          /\ dropping_off(World, k) # {}
          /\ picking_up(World, k) # {}

\* The loading time get_departure_time counts for the legs returned.
loading_counted(legs) == (Len(takewhile_not_lodge(World, legs)) - 1) * LOADING_TIME

\* The loading time the walk of update_stop_times added between the departure
\* and the end of the last leg before the Lodge.
loading_added(l) ==
    l.arrival - l.departure - sum_durations(takewhile_not_lodge(World, l.legs))

\* C29. Whatever the TransportConfig, the departure time of a resolved bus is
\* not before 7:30 and not after 11:00, and the loading time get_departure_time
\* counts is the loading time the walk of update_stop_times adds.
C29_DepartureWindow ==
    ( last.op = "update_stop_times" /\ last.raised = "none" )
    => /\ last.departure >= DEPARTURE_TIME
       /\ last.departure <= MIN_LODGE_ARRIVAL_TIME
       /\ loading_counted(last.legs) = loading_added(last)

\* C27. The dropoff and the pickup of a trip are on different dates, so no bus
\* has both a DROPOFF and a PICKUP StopOrder of one trip, and no route, stop or
\* section-date change is refused by the uniqueness of (trips_year, bus, trip).
C27_UniquenessNeverRejects ==
    /\ \A a, b \in stoporder : (a.bus = b.bus /\ a.trip = b.trip) => a = b
    /\ last.raised # "IntegrityError"

\* The legs of the route in the response to the request.
response_legs(req) == provider_legs(req.stops) + req.resp.extra_legs

intermediate_visits(k, stops) ==
    2 .. ( Len(stops) - (IF visits_lodge(World, k) THEN 1 ELSE 0)
                      - (IF returning(World, k) # {} THEN 1 ELSE 0) )

\* The computed times of the StopOrders of bus k behind a visit.
computed_times(k, visit) == { so.computed_time : so \in rows_of(k, visit) }

\* C24. After a resolve without custom times leg 1 starts at the departure
\* time; at every intermediate stop the computed time of every trip dropped off
\* or picked up there is the end_time of the leg that arrives there, and the leg
\* that leaves starts LOADING_TIME later; and the end_time of every leg is its
\* start_time plus its duration.
C24_TimeStamping ==
    ( /\ last.op = "update_stop_times"
      /\ last.raised = "none"
      /\ \A k \in last.buses : ~bus[k].use_custom_times )
    => \A k \in last.buses :
          LET legs == last.legs
          IN /\ legs[1].start_time = time_of(last.departure)
             /\ \A j \in intermediate_visits(k, last.stops) :
                   /\ computed_times(k, last.stops[j]) = { legs[j - 1].end_time }
                   /\ j <= Len(legs)
                        => legs[j].start_time = time_of(legs[j - 1].end_time + LOADING_TIME)
             /\ \A i \in 1 .. Len(legs) :
                   /\ legs[i].start_time # NULL
                   /\ legs[i].end_time = time_of(legs[i].start_time + legs[i].duration)

\* ------------------------------------------------------------------ retries

\* stoporder.time is read by a page: reads go on whatever the operators do, so
\* they are not counted as operations.
Read(so, orders, resp) ==
    LET r == time(World, so, orders, resp)
    IN /\ config' = r.w.config
       /\ stop' = r.w.stop
       /\ trip' = r.w.trip
       /\ leaders_arrive' = r.w.leaders_arrive
       /\ bus' = r.w.bus
       /\ stoporder' = r.w.stoporder
       /\ last' = [ Quiet("read") EXCEPT
                      !.buses = {so.bus}, !.called = r.called, !.raised = r.raised,
                      !.departure = r.departure, !.arrival = r.arrival,
                      !.returned = r.returned, !.trip = so.trip ]
       /\ UNCHANGED <<size, capacity, request, held, steps>>

NextRetry ==
    \/ \E so \in stoporder, o \in Orders : SaveOrder(so, o)
    \/ \E s \in Stops, l \in Locations : SaveStopLocation(s, l)
    \/ \E so \in stoporder, resp \in Responses :
          \E orders \in orderings(World, so.bus) : Read(so, orders, resp)

\* The times of bus k can be read and are computed ones.
readable(k) ==
    /\ bus[k].exists
    /\ ~bus[k].use_custom_times
    /\ \E so \in stoporder : so.bus = k

\* The last operation was a read of a time of bus k that raised nothing: the
\* provider answered if it was asked.
served(k) == last.op = "read" /\ last.buses = {k} /\ last.raised = "none"

\* Reads keep occurring and the provider eventually answers: a dirty bus whose
\* times can be read does not wait for ever for a read that succeeds. This is
\* what WF_vars of the successful read of bus k says, written on the states.
SpecRetry ==
    /\ Init
    /\ [][NextRetry]_vars
    /\ \A k \in BusKeys : []<>( ~( readable(k) /\ bus[k].dirty ) \/ served(k) )

\* C23. A read of StopOrder.time on a dirty bus without custom times always
\* calls the provider, whatever the earlier attempts did; a read that succeeds
\* returns the stored computed_time; and once the operators have stopped, a
\* dirty bus whose times are read becomes clean.
C23_RetryUntilClean ==
    /\ [][ \A k \in BusKeys :
             ( last'.op = "read" /\ last'.buses = {k}
               /\ bus[k].dirty /\ ~bus[k].use_custom_times )
             => last'.called ]_vars
    /\ []( ( last.op = "read" /\ last.raised = "none" )
           => \A so \in stoporder :
                 ( so.bus \in last.buses /\ so.trip = last.trip
                   /\ ~bus[so.bus].use_custom_times )
                 => last.returned = so.computed_time )
    /\ \A k \in BusKeys :
          ( steps = MaxSteps /\ readable(k) /\ bus[k].dirty ) ~> ~bus[k].dirty

\* A read has found the bus dirty after the operators' changes, the provider
\* has answered and the bus is clean.
C23_Witness ==
    /\ steps = MaxSteps
    /\ last.op = "read"
    /\ last.called
    /\ last.raised = "none"
    /\ \A k \in last.buses : ~bus[k].dirty

\* ------------------------------------------------- an instance held in memory

\* The database changes only in its bus and StopOrder rows.
Write(w) ==
    /\ bus' = w.bus
    /\ stoporder' = w.stoporder
    /\ UNCHANGED <<config, stop, trip, leaders_arrive, size, capacity, request, steps>>

\* InternalBus.objects.get(...): a process loads bus k. Nothing is memoized on
\* the new instance.
Load(k) ==
    /\ ~held.loaded
    /\ bus[k].exists
    /\ held' = [NoInstance EXCEPT !.loaded = TRUE, !.bus = k, !.dirty = bus[k].dirty]
    /\ last' = [Quiet("load") EXCEPT !.buses = {k}]
    /\ Write(World)

\* bus.refresh_from_db(): the fields are read again; what cached_property has
\* stored on the instance stays.
Refresh ==
    /\ held.loaded
    /\ ~held.flight
    /\ held' = [held EXCEPT !.dirty = bus[held.bus].dirty]
    /\ last' = [Quiet("refresh_from_db") EXCEPT !.buses = {held.bus}]
    /\ Write(World)

\* The process drops the instance.
Release ==
    /\ held.loaded
    /\ ~held.flight
    /\ held' = NoInstance
    /\ last' = [Quiet("release") EXCEPT !.buses = {held.bus}]
    /\ Write(World)

\* update_stop_times on the held instance, up to self.directions: all_stops and
\* directions are cached_property, computed on the first access and kept on the
\* instance; a getter that raises stores nothing.
Obtain(orders, resp) ==
    /\ held.loaded
    /\ ~held.flight
    /\ LET k == held.bus
           stops == IF held.stops # << >> THEN held.stops
                    ELSE all_stops(World, k, orders)
           memoized == held.legs # << >>
           d == IF memoized
                THEN [ raised |-> "none", message |-> "", called |-> FALSE,
                       legs |-> held.legs ]
                ELSE get_directions(stops, resp)
       IN IF k.trips_year # ThisYear
          THEN /\ held' = held
               /\ last' = [Quiet("directions") EXCEPT
                             !.buses = {k}, !.raised = "DoesNotExist"]
          ELSE /\ held' = [held EXCEPT
                             !.stops = stops,
                             !.legs = IF d.raised = "none" THEN d.legs ELSE << >>,
                             !.was_dirty = bus[k].dirty,
                             !.called = d.called,
                             !.flight = d.raised = "none"]
               /\ last' = [Quiet("directions") EXCEPT
                             !.buses = {k}, !.called = d.called, !.raised = d.raised,
                             !.message = d.message, !.stops = stops, !.legs = d.legs]
    /\ Write(World)

\* The rest of update_stop_times on the held instance: the walk over the legs
\* obtained, then self.dirty = False; self.save().
Finish ==
    /\ held.loaded
    /\ held.flight
    /\ LET k == held.bus
           d == [ raised |-> "none", message |-> "", called |-> held.called,
                  legs |-> held.legs ]
           r == update_stop_times_with(World, k, d)
       IN /\ held' = [held EXCEPT !.flight = FALSE, !.dirty = FALSE]
          /\ last' = [Quiet("update_stop_times") EXCEPT
                        !.buses = {k}, !.called = r.called, !.raised = r.raised,
                        !.departure = r.departure, !.arrival = r.arrival,
                        !.stops = held.stops, !.legs = r.legs]
          /\ Write(r.w)

\* One process works on an instance while the operators' changes commit.
NextInstance ==
    \/ \E k \in BusKeys : Load(k)
    \/ Refresh
    \/ Release
    \/ \E resp \in Responses :
          \E orders \in orderings(World, held.bus) : Obtain(orders, resp)
    \/ Finish
    \/ \E so \in stoporder, o \in Orders : SaveOrder(so, o)
    \/ \E s \in Stops, l \in Locations : SaveStopLocation(s, l)

SpecInstance == Init /\ [][NextInstance]_vars

\* C21. When a change of a StopOrder's order key of a bus commits while
\* update_stop_times of that bus is between obtaining the directions and its
\* final save, the bus is dirty once update_stop_times has finished.
C21_NoLostDirtyMark ==
    [][ ( /\ held.flight
          /\ ~held'.flight
          /\ last.op = "SaveOrder"
          /\ held.bus \in last.buses )
        => bus'[held.bus].dirty ]_vars

\* C22. When update_stop_times of a dirty bus has obtained its directions, the
\* provider has been called and the stops are the stops of the bus in the
\* database at that moment.
C22_FreshRecomputation ==
    ( /\ last.op = "directions"
      /\ last.raised = "none"
      /\ held.was_dirty )
    => /\ last.called
       /\ \E orders \in orderings(World, held.bus) :
             last.stops = all_stops(World, held.bus, orders)

====
